---- MODULE Spec2Model ----
(***************************************************************************)
(* A model of brainxcan/sbxcan/run_sbrainxcan.py (S-BrainXcan): the allele *)
(* harmonizer, the two table harmonizations built on it, the IDP-weight    *)
(* loader and the main script (chromosome loop, degenerate-IDP filter,     *)
(* marginal test, empirical null, saving).                                 *)
(*                                                                         *)
(* Conventions.  A pandas table is a sequence of records (its rows, in     *)
(* order).  A float that may be missing is a record [k, v]: Num(x) is the  *)
(* number x and NaN is numpy's nan.  A missing allele (np.nan in an object *)
(* column) is the string "nan".  A function that may raise returns a       *)
(* record [err, val]: err = "" when it returned val, else the exception.   *)
(***************************************************************************)
EXTENDS Integers, Sequences, FiniteSets, TLC

VARIABLES
    \* check_flip applied to one batch of allele rows
    fa, fres, fpc,
    \* rearrage_df_by_target applied to a table df and a target
    r_df, r_target, r_out, r_pc,
    \* harmonize_gwas_and_weight applied to a GWAS and a weight table
    h_gwas, h_weight, h_out, h_pc,
    \* load_idp applied to a weight file and its performance file
    l_df, l_perf, l_cutoff, l_out, l_pc,
    \* the script (lines 270-500): its arguments and input files,
    empirical_null, empirical_null_nrepeat, gwas_file, weight_file, perf_file,
    \* its variables,
    df_gwas, df_weight, df_perf, idp_names, nidp, nsnp_total, nrepeat_null,
    D, numer_b, numer_z, nsnp_used, beta_brainxcan, z_brainxcan, z_null, lambda_gc,
    \* the variables of the loop body as its last iteration left them: i,
    \* df_cov_meta, weight, b_gwas, se_gwas, z_gwas
    locals,
    \* the chromosomes the loop of line 393 has still to visit, the statement
    \* the script is at, the exception that ended it, the files it has written
    todo, pc, err, files

flipVars == <<fa, fres, fpc>>
rearrVars == <<r_df, r_target, r_out, r_pc>>
harmVars == <<h_gwas, h_weight, h_out, h_pc>>
idpVars == <<l_df, l_perf, l_cutoff, l_out, l_pc>>
argVars == <<empirical_null, empirical_null_nrepeat, gwas_file, weight_file, perf_file>>
tableVars == <<df_gwas, df_weight, df_perf, idp_names, nidp, nsnp_total, nrepeat_null>>
accVars == <<D, numer_b, numer_z, nsnp_used>>
testVars == <<beta_brainxcan, z_brainxcan, z_null, lambda_gc>>
mainVars == <<argVars, tableVars, accVars, testVars, locals, todo, pc, err, files>>
vars == <<flipVars, rearrVars, harmVars, idpVars, mainVars>>

----------------------------------------------------------------------------
(* Values *)

Num(x) == [k |-> "num", v |-> x]
NaN == [k |-> "nan", v |-> 0]
IsNaN(x) == x.k = "nan"

\* float * float with numpy's NaN propagation
Mul(x, y) == IF IsNaN(x) \/ IsNaN(y) THEN NaN ELSE Num(x.v * y.v)

Ok(val) == [err |-> "", val |-> val]
Raise(e) == [err |-> e, val |-> <<>>]

NA == "nan"
Bases == {"A", "C", "G", "T"}
\* an allele code that is not a single base (an indel, a multi-character allele)
Indel == "AT"

BASE_PAIR == [b \in Bases |->
    CASE b = "A" -> "T" [] b = "T" -> "A" [] b = "G" -> "C" [] b = "C" -> "G"]

----------------------------------------------------------------------------
(* The allele harmonizer *)

\* _check_flip without the palindromic test of line 33
_check_flip_no_ambiguity_test(a0, a1, b0, b1) ==
    IF a0 = NA \/ a1 = NA \/ b0 = NA \/ b1 = NA THEN Ok(NaN)
    ELSE IF a1 \notin DOMAIN BASE_PAIR \/ b1 \notin DOMAIN BASE_PAIR
        THEN Raise("KeyError")
    ELSE IF a0 = b0 /\ a1 = b1 THEN Ok(Num(1))
    ELSE IF a0 = b1 /\ a1 = b0 THEN Ok(Num(-1))
    ELSE IF b0 \notin DOMAIN BASE_PAIR THEN Raise("KeyError")
    ELSE IF a0 = BASE_PAIR[b0] /\ a1 = BASE_PAIR[b1] THEN Ok(Num(1))
    ELSE IF a0 = BASE_PAIR[b1] /\ a1 = BASE_PAIR[b0] THEN Ok(Num(-1))
    ELSE Ok(NaN)

\* _check_flip with the complement-flip case of lines 45-46 returning 1
_check_flip_complement_flip_same(a0, a1, b0, b1) ==
    IF a0 = NA \/ a1 = NA \/ b0 = NA \/ b1 = NA THEN Ok(NaN)
    ELSE IF a1 \notin DOMAIN BASE_PAIR THEN Raise("KeyError")
    ELSE IF a0 = BASE_PAIR[a1] THEN Ok(NaN)
    ELSE IF b1 \notin DOMAIN BASE_PAIR THEN Raise("KeyError")
    ELSE IF b0 = BASE_PAIR[b1] THEN Ok(NaN)
    ELSE IF a0 = b0 /\ a1 = b1 THEN Ok(Num(1))
    ELSE IF a0 = b1 /\ a1 = b0 THEN Ok(Num(-1))
    ELSE IF b0 \notin DOMAIN BASE_PAIR THEN Raise("KeyError")
    ELSE IF a0 = BASE_PAIR[b0] /\ a1 = BASE_PAIR[b1] THEN Ok(Num(1))
    ELSE IF a0 = BASE_PAIR[b1] /\ a1 = BASE_PAIR[b0] THEN Ok(Num(1))
    ELSE Ok(NaN)

\* Lines 23-48.  BASE_PAIR[x] raises KeyError when x is no key of the dict;
\* `or` and `and` evaluate left to right and stop at the first decisive operand.
_check_flip(a0, a1, b0, b1) ==
    IF a0 = NA \/ a1 = NA \/ b0 = NA \/ b1 = NA THEN Ok(NaN)
    \* remove ambiguious first: a0 == BASE_PAIR[a1] or b0 == BASE_PAIR[b1]
    ELSE IF a1 \notin DOMAIN BASE_PAIR THEN Raise("KeyError")
    ELSE IF a0 = BASE_PAIR[a1] THEN Ok(NaN)
    ELSE IF b1 \notin DOMAIN BASE_PAIR THEN Raise("KeyError")
    ELSE IF b0 = BASE_PAIR[b1] THEN Ok(NaN)
    \* exact match
    ELSE IF a0 = b0 /\ a1 = b1 THEN Ok(Num(1))
    \* flip
    ELSE IF a0 = b1 /\ a1 = b0 THEN Ok(Num(-1))
    \* compliment match: a0 == BASE_PAIR[b0] and a1 == BASE_PAIR[b1]
    ELSE IF b0 \notin DOMAIN BASE_PAIR THEN Raise("KeyError")
    ELSE IF a0 = BASE_PAIR[b0] /\ a1 = BASE_PAIR[b1] THEN Ok(Num(1))
    \* compliment flip
    ELSE IF a0 = BASE_PAIR[b1] /\ a1 = BASE_PAIR[b0] THEN Ok(Num(-1))
    ELSE Ok(NaN)

Min(m, n) == IF m <= n THEN m ELSE n

\* Lines 18-21: the loop over zip(a1, a2, b1, b2), appending to res; an
\* exception of _check_flip leaves the loop and the function.
RECURSIVE check_flip_loop(_, _, _, _, _, _)
check_flip_loop(a1, a2, b1, b2, i, res) ==
    IF i > Min(Min(Len(a1), Len(a2)), Min(Len(b1), Len(b2))) THEN Ok(res)
    ELSE LET r == _check_flip(a1[i], a2[i], b1[i], b2[i])
         IN IF r.err # "" THEN Raise(r.err)
            ELSE check_flip_loop(a1, a2, b1, b2, i + 1, Append(res, r.val))

check_flip(a1, a2, b1, b2) == check_flip_loop(a1, a2, b1, b2, 1, <<>>)


----------------------------------------------------------------------------
(* Tables.  A table is [columns, rows]: columns is the sequence of the     *)
(* names of its columns after snpid, chr, effect_allele and                *)
(* non_effect_allele, and a row is [snpid, chr, effect_allele,             *)
(* non_effect_allele, cols] with cols[name] the float of that column.      *)

Table(columns, rows) == [columns |-> columns, rows |-> rows]
Row(snpid, chr, ea, nea, cols) ==
    [snpid |-> snpid, chr |-> chr, effect_allele |-> ea,
     non_effect_allele |-> nea, cols |-> cols]

Range(s) == { s[i] : i \in 1..Len(s) }
NoCols == [c \in {} |-> NaN]

\* the rows of `rows`, in order, whose (snpid, chr) is that of row l
Matching(l, rows) ==
    SelectSeq(rows, LAMBDA d : d.snpid = l.snpid /\ d.chr = l.chr)

\* the row pandas fills in for a left row without a match: every column NaN
MissingRow(l, columns) == Row(l.snpid, l.chr, NA, NA, [c \in Range(columns) |-> NaN])

Pairs(l, m) == [j \in 1..Len(m) |-> [l |-> l, r |-> m[j]]]

\* pd.merge(left, right, on=['snpid', 'chr'], how='left'): the left rows in
\* order, each once per matching right row, or once with NaN when it has none
RECURSIVE merge_left(_, _, _)
merge_left(left, right, i) ==
    IF i > Len(left.rows) THEN <<>>
    ELSE LET l == left.rows[i]
             m == Matching(l, right.rows)
         IN (IF m = <<>> THEN << [l |-> l, r |-> MissingRow(l, right.columns)] >>
             ELSE Pairs(l, m)) \o merge_left(left, right, i + 1)

\* pd.merge(left, right, on=['snpid', 'chr']) (how='inner'): the left rows in
\* order, each once per matching right row
RECURSIVE merge_inner(_, _, _)
merge_inner(left, right, i) ==
    IF i > Len(left.rows) THEN <<>>
    ELSE Pairs(left.rows[i], Matching(left.rows[i], right.rows))
            \o merge_inner(left, right, i + 1)

\* Lines 50-77.  df_value_cols is the sequence of the names of the columns the
\* flip factor multiplies.
rearrage_df_by_target(df, target, df_value_cols) ==
    LET df_res == merge_left(target, df, 1)
        flip_factor == check_flip(
            [i \in 1..Len(df_res) |-> df_res[i].l.effect_allele],
            [i \in 1..Len(df_res) |-> df_res[i].l.non_effect_allele],
            [i \in 1..Len(df_res) |-> df_res[i].r.effect_allele],
            [i \in 1..Len(df_res) |-> df_res[i].r.non_effect_allele])
    IN  IF flip_factor.err # "" THEN Raise(flip_factor.err)
        ELSE Ok(Table(df.columns,
                [i \in 1..Len(df_res) |->
                    Row(df_res[i].l.snpid, df_res[i].l.chr,
                        df_res[i].l.effect_allele, df_res[i].l.non_effect_allele,
                        [c \in Range(df.columns) |->
                            IF c \in Range(df_value_cols)
                            THEN Mul(df_res[i].r.cols[c], flip_factor.val[i])
                            ELSE df_res[i].r.cols[c]])]))

\* the positions of seq, in order, at which keep holds
RECURSIVE Kept(_, _)
Kept(keep, i) ==
    IF i > Len(keep) THEN <<>>
    ELSE (IF keep[i] THEN <<i>> ELSE <<>>) \o Kept(keep, i + 1)

\* rows of `pairs`: the left row's key and alleles, the right row's columns
JoinedRows(pairs) ==
    [i \in 1..Len(pairs) |->
        Row(pairs[i].l.snpid, pairs[i].l.chr, pairs[i].l.effect_allele,
            pairs[i].l.non_effect_allele, pairs[i].r.cols)]

\* harmonize_gwas_and_weight multiplying by the flip factor of all common rows,
\* not only of the rows kept (line 100 left out)
harmonize_gwas_and_weight_unfiltered_flip(gwas, weight) ==
    LET common == merge_inner(gwas, weight, 1)
        flip_all == check_flip(
            [i \in 1..Len(common) |-> common[i].l.effect_allele],
            [i \in 1..Len(common) |-> common[i].l.non_effect_allele],
            [i \in 1..Len(common) |-> common[i].r.effect_allele],
            [i \in 1..Len(common) |-> common[i].r.non_effect_allele])
    IN  IF flip_all.err # "" THEN Raise(flip_all.err)
        ELSE
        LET to_keep_ind == Kept([i \in 1..Len(common) |-> ~IsNaN(flip_all.val[i])], 1)
            df_common == Table(<<>>,
                [k \in 1..Len(to_keep_ind) |->
                    Row(common[to_keep_ind[k]].r.snpid, common[to_keep_ind[k]].r.chr,
                        common[to_keep_ind[k]].r.effect_allele,
                        common[to_keep_ind[k]].r.non_effect_allele, NoCols)])
            gwas_rows == JoinedRows(merge_inner(df_common, gwas, 1))
            weight_rows == JoinedRows(merge_inner(df_common, weight, 1))
        IN  Ok([gwas |-> Table(gwas.columns,
                    [i \in 1..Len(gwas_rows) |->
                        [gwas_rows[i] EXCEPT !.cols["effect_size"] =
                            Mul(@, flip_all.val[i])]]),
                weight |-> Table(weight.columns, weight_rows)])

\* Lines 79-117.  Returns [gwas, weight].  Series * ndarray of another length
\* raises ValueError.
harmonize_gwas_and_weight(gwas, weight) ==
    LET common == merge_inner(gwas, weight, 1)
        flip_all == check_flip(
            [i \in 1..Len(common) |-> common[i].l.effect_allele],
            [i \in 1..Len(common) |-> common[i].l.non_effect_allele],
            [i \in 1..Len(common) |-> common[i].r.effect_allele],
            [i \in 1..Len(common) |-> common[i].r.non_effect_allele])
    IN  IF flip_all.err # "" THEN Raise(flip_all.err)
        ELSE
        LET to_keep_ind == Kept([i \in 1..Len(common) |-> ~IsNaN(flip_all.val[i])], 1)
            flip_factor == [k \in 1..Len(to_keep_ind) |-> flip_all.val[to_keep_ind[k]]]
            \* the surviving keys, with the weight table's alleles
            df_common == Table(<<>>,
                [k \in 1..Len(to_keep_ind) |->
                    Row(common[to_keep_ind[k]].r.snpid, common[to_keep_ind[k]].r.chr,
                        common[to_keep_ind[k]].r.effect_allele,
                        common[to_keep_ind[k]].r.non_effect_allele, NoCols)])
            gwas_rows == JoinedRows(merge_inner(df_common, gwas, 1))
            weight_rows == JoinedRows(merge_inner(df_common, weight, 1))
        IN  IF Len(gwas_rows) # Len(flip_factor) THEN Raise("ValueError")
            ELSE Ok([gwas |-> Table(gwas.columns,
                        [i \in 1..Len(gwas_rows) |->
                            [gwas_rows[i] EXCEPT !.cols["effect_size"] =
                                Mul(@, flip_factor[i])]]),
                     weight |-> Table(weight.columns, weight_rows)])

----------------------------------------------------------------------------
(* The IDP-weight loader.  The performance table is a sequence of rows     *)
(* [IDP, CV_Spearman]; a Spearman correlation is held in tenths, so the    *)
(* default cutoff 0.1 is 1.                                                *)

RECURSIVE SumSeq(_)
SumSeq(xs) == IF xs = <<>> THEN Num(0)
              ELSE LET rest == SumSeq(Tail(xs))
                   IN IF IsNaN(Head(xs)) \/ IsNaN(rest) THEN NaN
                      ELSE Num(Head(xs).v + rest.v)

\* the floats of row r in the columns `columns`, in that order
RowValues(r, columns) == [j \in 1..Len(columns) |-> r.cols[columns[j]]]

\* NaN >= x is False
Geq(x, y) == ~IsNaN(x) /\ ~IsNaN(y) /\ x.v >= y.v

\* load_idp whose zero-sum filter drops IDP columns (axis=0) and keeps every row
load_idp_drop_zero_columns(df, perf, spearman_cutoff) ==
    LET passed == SelectSeq(perf, LAMBDA q : Geq(q.CV_Spearman, spearman_cutoff))
        cols_to_keep == [j \in 1..Len(passed) |-> passed[j].IDP]
        column == [c \in Range(cols_to_keep) |->
                      [i \in 1..Len(df.rows) |-> df.rows[i].cols[c]]]
        kept == SelectSeq(cols_to_keep, LAMBDA c : SumSeq(column[c]) # Num(0))
    IN  IF ~(Range(cols_to_keep) \subseteq Range(df.columns)) THEN Raise("KeyError")
        ELSE Ok([weight |-> Table(kept,
                    [i \in 1..Len(df.rows) |->
                        [df.rows[i] EXCEPT !.cols = [c \in Range(kept) |-> df.rows[i].cols[c]]]]),
                 perf |-> passed])

\* Lines 240-255, after the two files are read: df is the weight table, perf the
\* performance table.  df[cols_to_keep] raises KeyError for a name that is no
\* column of df; values.sum(axis=1) is one sum per row.
load_idp(df, perf, spearman_cutoff) ==
    LET passed == SelectSeq(perf, LAMBDA q : Geq(q.CV_Spearman, spearman_cutoff))
        cols_to_keep == [j \in 1..Len(passed) |-> passed[j].IDP]
        selected(r) == [r EXCEPT !.cols = [c \in Range(cols_to_keep) |-> r.cols[c]]]
    IN  IF ~(Range(cols_to_keep) \subseteq Range(df.columns)) THEN Raise("KeyError")
        ELSE Ok([weight |-> Table(cols_to_keep,
                    SelectSeq([i \in 1..Len(df.rows) |-> selected(df.rows[i])],
                              LAMBDA r : SumSeq(RowValues(r, cols_to_keep)) # Num(0))),
                 perf |-> passed])

----------------------------------------------------------------------------
(* Specification SpecRearr: rearrage_df_by_target on a table df with one   *)
(* value column and a target, both of one chromosome.                      *)

MaxDfRows == 2
MaxTargetRows == 2

SeqsUpTo(S, n) == UNION { [1..m -> S] : m \in 0..n }

\* rs numbers
SnpIds == {1, 2}
\* against the target's A/C: exact, swapped, complement, palindromic,
\* incompatible, and an indel
DfAllelePairs == { <<"A", "C">>, <<"C", "A">>, <<"T", "G">>, <<"A", "T">>,
                   <<"A", "G">>, <<"A", Indel>> }
TargetAllelePairs == { <<"A", "C">>, <<"G", "C">> }

RearrDfRows ==
    { Row(s, "1", p[1], p[2], [c \in {"value"} |-> Num(x)]) :
        s \in SnpIds, p \in DfAllelePairs, x \in {2, 3} }
RearrTargetRows ==
    { Row(s, "1", p[1], p[2], NoCols) : s \in SnpIds, p \in TargetAllelePairs }

RearrInit ==
    /\ r_df \in { Table(<<"value">>, rows) : rows \in SeqsUpTo(RearrDfRows, MaxDfRows) }
    /\ r_target \in { Table(<<>>, rows) : rows \in SeqsUpTo(RearrTargetRows, MaxTargetRows) }
    /\ r_out = Ok(<<>>)
    /\ r_pc = "start"
RearrIdle ==
    r_df = Table(<<>>, <<>>) /\ r_target = Table(<<>>, <<>>) /\ r_out = Ok(<<>>)
        /\ r_pc = "idle"

RearrCall ==
    /\ r_pc = "start"
    /\ r_out' = rearrage_df_by_target(r_df, r_target, <<"value">>)
    /\ r_pc' = IF r_out'.err = "" THEN "done" ELSE "raised"
    /\ UNCHANGED <<r_df, r_target>>

----------------------------------------------------------------------------
(* Specification SpecHarm: harmonize_gwas_and_weight on a GWAS table as    *)
(* load_gwas returns it (snpid unique, effect_size and effect_size_se      *)
(* present) and a weight table of two IDPs.                                *)

MaxGwasRows == 2
MaxWeightRows == 2

Chrs == {"1", "2"}
\* against the weight table's A/C: exact, swapped, complement, palindromic
GwasAllelePairs == { <<"A", "C">>, <<"C", "A">>, <<"T", "G">>, <<"A", "T">> }
WeightAllelePairs == { <<"A", "C">>, <<"A", "G">> }
IdpNames == <<"idp1", "idp2">>

GwasCols(b, se) == [c \in {"effect_size", "effect_size_se"} |->
                        IF c = "effect_size" THEN Num(b) ELSE Num(se)]
WeightCols(w) == [c \in Range(IdpNames) |-> IF c = "idp1" THEN Num(w[1]) ELSE Num(w[2])]

HarmGwasRows ==
    { Row(s, ch, p[1], p[2], GwasCols(IF s = 1 THEN 2 ELSE 3, 1)) :
        s \in SnpIds, ch \in Chrs, p \in GwasAllelePairs }
HarmWeightRows ==
    { Row(s, ch, p[1], p[2], WeightCols(w)) :
        s \in SnpIds, ch \in Chrs, p \in WeightAllelePairs, w \in {<<1, 0>>, <<-1, 2>>} }

\* load_gwas, line 217: df.drop_duplicates('snpid')
UniqueSnpid(rows) ==
    \A i, j \in 1..Len(rows) : rows[i].snpid = rows[j].snpid => i = j
UniqueKey(rows) ==
    \A i, j \in 1..Len(rows) :
        (rows[i].snpid = rows[j].snpid /\ rows[i].chr = rows[j].chr) => i = j

HarmInit ==
    /\ h_gwas \in { Table(<<"effect_size", "effect_size_se">>, rows) :
                      rows \in { r \in SeqsUpTo(HarmGwasRows, MaxGwasRows) : UniqueSnpid(r) } }
    /\ h_weight \in { Table(IdpNames, rows) : rows \in SeqsUpTo(HarmWeightRows, MaxWeightRows) }
    /\ h_out = Ok(<<>>)
    /\ h_pc = "start"
HarmIdle ==
    h_gwas = Table(<<>>, <<>>) /\ h_weight = Table(<<>>, <<>>) /\ h_out = Ok(<<>>)
        /\ h_pc = "idle"

HarmCall ==
    /\ h_pc = "start"
    /\ h_out' = harmonize_gwas_and_weight(h_gwas, h_weight)
    /\ h_pc' = IF h_out'.err = "" THEN "done" ELSE "raised"
    /\ UNCHANGED <<h_gwas, h_weight>>

----------------------------------------------------------------------------
(* Specification SpecIdp: load_idp on a weight file of two IDPs and a      *)
(* performance file listing both.                                          *)

MaxIdpRows == 2
\* spearman_cutoff=0.1, in tenths
DefaultCutoff == 1

IdpWeightRows ==
    { Row(s, "1", "A", "C", WeightCols(w)) :
        s \in SnpIds, w \in {-1, 0, 1} \X {-1, 0, 1} }
Spearmans == {NaN, Num(0), Num(1), Num(2)}
PerfRow(n, x) == [IDP |-> n, CV_Spearman |-> x]
PerfTables ==
    { <<PerfRow(n[1], x), PerfRow(n[2], y)>> :
        n \in {<<"idp1", "idp2">>, <<"idp2", "idp1">>}, x \in Spearmans, y \in Spearmans }

IdpInit ==
    /\ l_df \in { Table(IdpNames, rows) : rows \in SeqsUpTo(IdpWeightRows, MaxIdpRows) }
    /\ l_perf \in PerfTables
    /\ l_cutoff \in {Num(DefaultCutoff), Num(DefaultCutoff + 1)}
    /\ l_out = Ok(<<>>)
    /\ l_pc = "start"
IdpIdle ==
    l_df = Table(<<>>, <<>>) /\ l_perf = <<>> /\ l_cutoff = Num(DefaultCutoff)
        /\ l_out = Ok(<<>>) /\ l_pc = "idle"

IdpCall ==
    /\ l_pc = "start"
    /\ l_out' = load_idp(l_df, l_perf, l_cutoff)
    /\ l_pc' = IF l_out'.err = "" THEN "done" ELSE "raised"
    /\ UNCHANGED <<l_df, l_perf, l_cutoff>>

----------------------------------------------------------------------------
(* The script, lines 270-500.                                              *)
(*                                                                         *)
(* Vectors and matrices are sequences of integers and sequences of rows.   *)
(* The inputs are chosen so that every quotient b / se and every square    *)
(* root of a covariance diagonal is an integer.  beta and z are held as    *)
(* the fractions the script divides: [num, den] for numer_b / S_D^2 with   *)
(* den = D[i,i], and [num, den] for numer_z / S_D with den = D[i,i] under  *)
(* the root.                                                               *)
(*                                                                         *)
(* The statement of lines 361-366 does not parse (the list opened at line  *)
(* 361 is closed by a parenthesis), so Python refuses the file as it       *)
(* stands.  The model follows the statements as written; lines 359-366 are *)
(* never reached in it, because line 355 raises first.                     *)

Zeros(n) == [i \in 1..n |-> 0]
ZeroMatrix(n) == [i \in 1..n |-> Zeros(n)]
VecAdd(x, y) == [i \in 1..Len(x) |-> x[i] + y[i]]
MatAdd(X, Y) == [i \in 1..Len(X) |-> VecAdd(X[i], Y[i])]

RECURSIVE Dot(_, _, _)
Dot(x, y, i) == IF i > Len(x) THEN 0 ELSE x[i] * y[i] + Dot(x, y, i + 1)

\* column j of the SNP x IDP matrix W
MatCol(W, j) == [s \in 1..Len(W) |-> W[s][j]]

\* W.T @ v for an SNP x IDP matrix W of nidp columns and an SNP vector v
TransposeTimesVec(W, v, n) == [j \in 1..n |-> Dot(MatCol(W, j), v, 1)]
\* W.T @ X for SNP x IDP matrices W and X
TransposeTimes(W, X, n) == [j \in 1..n |-> [l \in 1..n |-> Dot(MatCol(W, j), MatCol(X, l), 1)]]

\* np.sqrt of a perfect square
Sqrt(x) == CHOOSE r \in 0..x : r * r = x

\* x[np.isnan(x)] = d
FillNa(x, d) == IF IsNaN(x) THEN d ELSE x.v

\* (weight != 0).sum(axis=0): per column, the rows whose entry is not zero
\* (NaN != 0 is True)
CountNonZero(rows, columns) ==
    [j \in 1..Len(columns) |->
        Cardinality({ i \in 1..Len(rows) : rows[i].cols[columns[j]] # Num(0) })]

\* df[ df.chr == str(i) ]
OfChr(table, chr) == Table(table.columns, SelectSeq(table.rows, LAMBDA r : r.chr = chr))

\* np.array(x)[good] for a boolean mask good
Mask(x, good) == LET keep == Kept(good, 1) IN [k \in 1..Len(keep) |-> x[keep[k]]]

\* CovMatrix(path).eval_matmul_on_left(weight, param): (Cov @ weight, diag(Cov)),
\* for the covariance Cov of one chromosome; a weight matrix of another height
\* than Cov raises
eval_matmul_on_left(cov, weight, n) ==
    IF Len(weight) # Len(cov) THEN Raise("ValueError")
    ELSE Ok([cov_x_weight |-> [s \in 1..Len(cov) |->
                                  [j \in 1..n |-> Dot(cov[s], MatCol(weight, j), 1)]],
             diag_cov |-> [s \in 1..Len(cov) |-> cov[s][s]]])

\* the loop body with `D = D_chr` for `D += D_chr` (and so on)
accumulate_overwrite(acc, chr) ==
    IF Len(chr.D) # Len(acc.D) THEN Raise("ValueError")
    ELSE Ok([D |-> chr.D, numer_b |-> chr.numer_b, numer_z |-> chr.numer_z,
             nsnp_used |-> chr.nsnp_used])

\* Lines 425 and 440-442: nsnp_used += ..., D += D_chr, numer_b += numer_b_chr,
\* numer_z += numer_z_chr; numpy refuses operands of different shapes
accumulate(acc, chr) ==
    IF Len(chr.D) # Len(acc.D) THEN Raise("ValueError")
    ELSE Ok([D |-> MatAdd(acc.D, chr.D),
             numer_b |-> VecAdd(acc.numer_b, chr.numer_b),
             numer_z |-> VecAdd(acc.numer_z, chr.numer_z),
             nsnp_used |-> VecAdd(acc.nsnp_used, chr.nsnp_used)])

\* the zero-fill of lines 423-431 with the standard error of every SNP whose
\* effect size is missing set to 1 as well
zero_fill_se_with_effect(df_gwas_sub, df_weight_sub, df_cov_meta, columns) ==
    LET g == rearrage_df_by_target(df_gwas_sub, df_cov_meta, <<"effect_size">>)
        w == rearrage_df_by_target(df_weight_sub, df_cov_meta, columns)
    IN  IF g.err # "" THEN Raise(g.err)
        ELSE IF w.err # "" THEN Raise(w.err)
        ELSE
        LET b_gwas == [s \in 1..Len(g.val.rows) |->
                          FillNa(g.val.rows[s].cols["effect_size"], 0)]
            se_gwas == [s \in 1..Len(g.val.rows) |->
                          IF IsNaN(g.val.rows[s].cols["effect_size"]) THEN 1
                          ELSE FillNa(g.val.rows[s].cols["effect_size_se"], 1)]
        IN  Ok([weight |-> [s \in 1..Len(w.val.rows) |->
                               [j \in 1..Len(columns) |->
                                   FillNa(w.val.rows[s].cols[columns[j]], 0)]],
                b_gwas |-> b_gwas,
                se_gwas |-> se_gwas,
                z_gwas |-> [s \in 1..Len(b_gwas) |-> b_gwas[s] \div se_gwas[s]]])

\* Lines 408-431: the GWAS and the weight subset put on the covariance meta
\* SNPs, and the zero-filled arrays weight, b_gwas, se_gwas, z_gwas
zero_fill(df_gwas_sub, df_weight_sub, df_cov_meta, columns) ==
    LET g == rearrage_df_by_target(df_gwas_sub, df_cov_meta, <<"effect_size">>)
        w == rearrage_df_by_target(df_weight_sub, df_cov_meta, columns)
    IN  IF g.err # "" THEN Raise(g.err)
        ELSE IF w.err # "" THEN Raise(w.err)
        ELSE
        LET b_gwas == [s \in 1..Len(g.val.rows) |->
                          FillNa(g.val.rows[s].cols["effect_size"], 0)]
            se_gwas == [s \in 1..Len(g.val.rows) |->
                          FillNa(g.val.rows[s].cols["effect_size_se"], 1)]
        IN  Ok([weight |-> [s \in 1..Len(w.val.rows) |->
                               [j \in 1..Len(columns) |->
                                   FillNa(w.val.rows[s].cols[columns[j]], 0)]],
                b_gwas |-> b_gwas,
                se_gwas |-> se_gwas,
                z_gwas |-> [s \in 1..Len(b_gwas) |-> b_gwas[s] \div se_gwas[s]]])

\* Lines 425 and 433-439: D_chr, numer_b_chr, numer_z_chr and the increment of
\* nsnp_used, from the zero-filled arrays and the covariance of the chromosome
aggregate(weight, b_gwas, z_gwas, cov_mat, n) ==
    LET m == eval_matmul_on_left(cov_mat, weight, n)
    IN  IF m.err # "" THEN Raise(m.err)
        ELSE IF Len(b_gwas) # Len(m.val.diag_cov) THEN Raise("ValueError")
        ELSE
        LET var_R_chr == m.val.diag_cov
        IN  Ok([D |-> TransposeTimes(weight, m.val.cov_x_weight, n),
                numer_b |-> TransposeTimesVec(weight,
                    [s \in 1..Len(b_gwas) |-> var_R_chr[s] * b_gwas[s]], n),
                numer_z |-> TransposeTimesVec(weight,
                    [s \in 1..Len(z_gwas) |-> Sqrt(var_R_chr[s]) * z_gwas[s]], n),
                nsnp_used |-> [j \in 1..n |->
                    Cardinality({ s \in 1..Len(weight) : weight[s][j] # 0 })]])

\* Lines 401-439: what chromosome i adds, from its non-empty GWAS subset, its
\* weight subset, the covariance meta table and the covariance of the chromosome
chr_contribution(df_gwas_sub, df_weight_sub, df_cov_meta, cov_mat, columns) ==
    LET f == zero_fill(df_gwas_sub, df_weight_sub, df_cov_meta, columns)
    IN  IF f.err # "" THEN Raise(f.err)
        ELSE aggregate(f.val.weight, f.val.b_gwas, f.val.z_gwas, cov_mat, Len(columns))

\* the filter of lines 445-453 leaving nsnp_total as it was (line 453 left out)
bad_pheno_filter_keep_nsnp_total(x) ==
    LET good_pheno == [i \in 1..Len(x.D) |-> x.D[i][i] # 0]
    IN  IF \A i \in 1..Len(x.D) : good_pheno[i] THEN x
        ELSE [D |-> Mask([i \in 1..Len(x.D) |-> Mask(x.D[i], good_pheno)], good_pheno),
              numer_b |-> Mask(x.numer_b, good_pheno),
              numer_z |-> Mask(x.numer_z, good_pheno),
              idp_names |-> Mask(x.idp_names, good_pheno),
              nsnp_used |-> Mask(x.nsnp_used, good_pheno),
              nsnp_total |-> x.nsnp_total]

\* Lines 445-453, on x = [D, numer_b, numer_z, idp_names, nsnp_used, nsnp_total]
bad_pheno_filter(x) ==
    LET good_pheno == [i \in 1..Len(x.D) |-> x.D[i][i] # 0]
    IN  IF \A i \in 1..Len(x.D) : good_pheno[i] THEN x
        ELSE [D |-> Mask([i \in 1..Len(x.D) |-> Mask(x.D[i], good_pheno)], good_pheno),
              numer_b |-> Mask(x.numer_b, good_pheno),
              numer_z |-> Mask(x.numer_z, good_pheno),
              idp_names |-> Mask(x.idp_names, good_pheno),
              nsnp_used |-> Mask(x.nsnp_used, good_pheno),
              nsnp_total |-> Mask(x.nsnp_total, good_pheno)]

\* Lines 456-458: numer_b / S_D^2 and numer_z / S_D as fractions over D[i,i]
Ratios(numer, diag) == [i \in 1..Len(numer) |-> [num |-> numer[i], den |-> diag[i]]]

\* x[n:] and x[:n] of a sequence
From(x, n) == SubSeq(x, Min(n, Len(x)) + 1, Len(x))
UpTo(x, n) == SubSeq(x, 1, Min(n, Len(x)))

----------------------------------------------------------------------------
(* Specification SpecMain: one run of the script.  The chromosomes are     *)
(* 1..NChr (22 in the script): chromosome 1 has the SNPs 1 and 2, every    *)
(* other chromosome c the SNP c + 1.  range(1, 23) visits them in          *)
(* ascending order; the body reads i, df_gwas, df_weight and the           *)
(* accumulators only, and the model lets the loop take the chromosomes     *)
(* left in any order, the script's among them.                             *)

NChr == 2
MaxRepeat == 2

Chromosomes == 1..NChr
SnpsOf(c) == IF c = 1 THEN {1, 2} ELSE {c + 1}
ChrOf(s) == IF s <= 2 THEN 1 ELSE s - 1
AllSnps == 1..(NChr + 1)

\* load_cov_meta: the SNPs of the chromosome's covariance, in its order, with
\* its alleles
load_cov_meta(c) ==
    Table(<<>>, LET snp(s) == IF s = 2 THEN Row(2, ToString(c), "C", "A", NoCols)
                              ELSE Row(s, ToString(c), "A", "C", NoCols)
                IN  IF c = 1 THEN <<snp(1), snp(2)>> ELSE <<snp(c + 1)>>)
\* the covariance of the chromosome
CovMatrix(c) == IF c = 1 THEN << <<1, 1>>, <<1, 4>> >> ELSE << <<c * c>> >>

GwasChoices(s) ==
    IF s = 1 THEN {"absent", "AC", "CA", "AG"}
    ELSE IF s = 2 THEN {"absent", "AC", "CA"} ELSE {"absent", "AC"}
WeightChoices(s) ==
    IF s <= 2 THEN {"absent", "w10", "w01", "w12", "g12"} ELSE {"absent", "w10", "w12"}

GwasRow(s, x) ==
    CASE x = "AC" -> Row(s, ToString(ChrOf(s)), "A", "C", GwasCols(2, 1))
      [] x = "CA" -> Row(s, ToString(ChrOf(s)), "C", "A", GwasCols(4, 2))
      [] OTHER -> Row(s, ToString(ChrOf(s)), "A", "G", GwasCols(6, 3))
WeightRow(s, x) ==
    CASE x = "w10" -> Row(s, ToString(ChrOf(s)), "A", "C", WeightCols(<<1, 0>>))
      [] x = "w01" -> Row(s, ToString(ChrOf(s)), "A", "C", WeightCols(<<0, 1>>))
      [] x = "w12" -> Row(s, ToString(ChrOf(s)), "A", "C", WeightCols(<<1, 2>>))
      [] OTHER -> Row(s, ToString(ChrOf(s)), "A", "G", WeightCols(<<1, 2>>))

\* the SNPs, in ascending order, that choice f does not leave out
Present(f) == SelectSeq([s \in 1..(NChr + 1) |-> s], LAMBDA s : f[s] # "absent")

GwasFiles ==
    { Table(<<"effect_size", "effect_size_se">>, [k \in 1..Len(Present(f)) |-> GwasRow(Present(f)[k], f[Present(f)[k]])]) :
        f \in { f \in [AllSnps -> {"absent", "AC", "CA", "AG"}] :
                    \A s \in AllSnps : f[s] \in GwasChoices(s) } }
WeightFiles ==
    { Table(IdpNames, [k \in 1..Len(Present(f)) |-> WeightRow(Present(f)[k], f[Present(f)[k]])]) :
        f \in { f \in [AllSnps -> {"absent", "w10", "w01", "w12", "g12"}] :
                    \A s \in AllSnps : f[s] \in WeightChoices(s) } }
PerfFiles == { <<PerfRow("idp1", Num(2)), PerfRow("idp2", x)>> : x \in {Num(0), Num(2)} }

NoTable == Table(<<>>, <<>>)
\* before the first iteration
NoLocals == [i |-> 0, df_cov_meta |-> NoTable, weight |-> <<>>, b_gwas |-> <<>>,
             se_gwas |-> <<>>, z_gwas |-> <<>>]

MainInit ==
    /\ empirical_null \in BOOLEAN
    /\ empirical_null_nrepeat \in (IF empirical_null THEN 1..MaxRepeat ELSE {1})
    /\ gwas_file \in GwasFiles
    /\ weight_file \in WeightFiles
    /\ perf_file \in PerfFiles
    /\ df_gwas = NoTable /\ df_weight = NoTable /\ df_perf = <<>>
    /\ idp_names = <<>> /\ nidp = 0 /\ nsnp_total = <<>> /\ nrepeat_null = 0
    /\ D = <<>> /\ numer_b = <<>> /\ numer_z = <<>> /\ nsnp_used = <<>>
    /\ beta_brainxcan = <<>> /\ z_brainxcan = <<>> /\ z_null = <<>>
    /\ lambda_gc = "unset" /\ locals = NoLocals
    /\ todo = {} /\ pc = "load" /\ err = "" /\ files = {}
MainIdle ==
    /\ empirical_null = FALSE /\ empirical_null_nrepeat = 1
    /\ gwas_file = NoTable /\ weight_file = NoTable /\ perf_file = <<>>
    /\ df_gwas = NoTable /\ df_weight = NoTable /\ df_perf = <<>>
    /\ idp_names = <<>> /\ nidp = 0 /\ nsnp_total = <<>> /\ nrepeat_null = 0
    /\ D = <<>> /\ numer_b = <<>> /\ numer_z = <<>> /\ nsnp_used = <<>>
    /\ beta_brainxcan = <<>> /\ z_brainxcan = <<>> /\ z_null = <<>>
    /\ lambda_gc = "unset" /\ locals = NoLocals
    /\ todo = {} /\ pc = "idle" /\ err = "" /\ files = {}

\* Lines 336-351: load_gwas (its result is gwas_file), load_idp, idp_names,
\* nidp, nsnp_total
Load ==
    /\ pc = "load"
    /\ LET r == load_idp(weight_file, perf_file, Num(DefaultCutoff))
       IN  /\ r.err = ""
           /\ df_gwas' = gwas_file
           /\ df_weight' = r.val.weight
           /\ df_perf' = r.val.perf
           /\ idp_names' = r.val.weight.columns
           /\ nidp' = Len(r.val.weight.columns)
           /\ nsnp_total' = CountNonZero(r.val.weight.rows, r.val.weight.columns)
    /\ pc' = "empirical_null"
    /\ UNCHANGED <<argVars, nrepeat_null, accVars, testVars, todo, err, files, locals>>

\* Lines 353-366 without --empirical_null
NoEmpiricalNull ==
    /\ pc = "empirical_null"
    /\ ~empirical_null
    /\ nrepeat_null' = 0
    /\ pc' = "harmonize"
    /\ UNCHANGED <<argVars, df_gwas, df_weight, df_perf, idp_names, nidp, nsnp_total,
                   accVars, testVars, todo, err, files, locals>>

\* Lines 353-355 with --empirical_null: args has no attribute args
EmpiricalNullRaises ==
    /\ pc = "empirical_null"
    /\ empirical_null
    /\ nrepeat_null' = 0
    /\ pc' = "error"
    /\ err' = "AttributeError"
    /\ UNCHANGED <<argVars, df_gwas, df_weight, df_perf, idp_names, nidp, nsnp_total,
                   accVars, testVars, todo, files, locals>>

\* Lines 368-392: harmonize_gwas_and_weight, then the accumulators set to zero
Harmonize ==
    /\ pc = "harmonize"
    /\ LET r == harmonize_gwas_and_weight(df_gwas, df_weight)
       IN  /\ r.err = ""
           /\ df_gwas' = r.val.gwas
           /\ df_weight' = r.val.weight
    /\ D' = ZeroMatrix(nidp)
    /\ numer_b' = Zeros(nidp)
    /\ numer_z' = Zeros(nidp)
    /\ nsnp_used' = Zeros(nidp)
    /\ todo' = Chromosomes
    /\ pc' = "loop"
    /\ UNCHANGED <<argVars, df_perf, idp_names, nidp, nsnp_total, nrepeat_null,
                   testVars, err, files, locals>>

\* Lines 395-398: an iteration whose GWAS subset is empty
ChrSkip(i) ==
    /\ pc = "loop"
    /\ i \in todo
    /\ Len(OfChr(df_gwas, ToString(i)).rows) = 0
    /\ locals' = [locals EXCEPT !.i = i]
    /\ todo' = todo \ {i}
    /\ UNCHANGED <<argVars, tableVars, accVars, testVars, pc, err, files>>

\* Lines 395-442: an iteration whose GWAS subset is not empty
ChrAccumulate(i) ==
    /\ pc = "loop"
    /\ i \in todo
    /\ Len(OfChr(df_gwas, ToString(i)).rows) # 0
    /\ \E f \in { zero_fill(OfChr(df_gwas, ToString(i)), OfChr(df_weight, ToString(i)),
                            load_cov_meta(i), df_weight.columns) } :
          /\ f.err = ""
          /\ locals' = [i |-> i, df_cov_meta |-> load_cov_meta(i),
                        weight |-> f.val.weight, b_gwas |-> f.val.b_gwas,
                        se_gwas |-> f.val.se_gwas, z_gwas |-> f.val.z_gwas]
          /\ \E c \in { aggregate(f.val.weight, f.val.b_gwas, f.val.z_gwas,
                                  CovMatrix(i), Len(df_weight.columns)) } :
             /\ c.err = ""
             /\ \E a \in { accumulate([D |-> D, numer_b |-> numer_b, numer_z |-> numer_z,
                                       nsnp_used |-> nsnp_used], c.val) } :
                /\ a.err = ""
                /\ D' = a.val.D
                /\ numer_b' = a.val.numer_b
                /\ numer_z' = a.val.numer_z
                /\ nsnp_used' = a.val.nsnp_used
    /\ todo' = todo \ {i}
    /\ UNCHANGED <<argVars, tableVars, testVars, pc, err, files>>

\* Lines 444-453, once the loop has visited every chromosome
BadPhenoFilter ==
    /\ pc = "loop"
    /\ todo = {}
    /\ LET x == bad_pheno_filter([D |-> D, numer_b |-> numer_b, numer_z |-> numer_z,
                                  idp_names |-> idp_names, nsnp_used |-> nsnp_used,
                                  nsnp_total |-> nsnp_total])
       IN  /\ D' = x.D
           /\ numer_b' = x.numer_b
           /\ numer_z' = x.numer_z
           /\ idp_names' = x.idp_names
           /\ nsnp_used' = x.nsnp_used
           /\ nsnp_total' = x.nsnp_total
    /\ pc' = "marginal"
    /\ UNCHANGED <<argVars, df_gwas, df_weight, df_perf, nidp, nrepeat_null,
                   testVars, todo, err, files, locals>>

\* Lines 455-463: the marginal test and, with --empirical_null, the split of
\* z_brainxcan at nrepeat_null
MarginalTest ==
    /\ pc = "marginal"
    /\ LET diag == [i \in 1..Len(D) |-> D[i][i]]
           z == Ratios(numer_z, diag)
       IN  /\ beta_brainxcan' = Ratios(numer_b, diag)
           /\ z_null' = IF empirical_null THEN From(z, nrepeat_null) ELSE <<>>
           /\ z_brainxcan' = IF empirical_null THEN UpTo(z, nrepeat_null) ELSE z
    /\ pc' = "genomic_control"
    /\ UNCHANGED <<argVars, tableVars, accVars, lambda_gc, todo, err, files, locals>>

\* Lines 465-467: genomic_control(z_brainxcan); the floats z_adj_gc and
\* lambda_gc are not held
GenomicControl ==
    /\ pc = "genomic_control"
    /\ lambda_gc' = "computed"
    /\ pc' = "save"
    /\ UNCHANGED <<argVars, tableVars, accVars, beta_brainxcan, z_brainxcan, z_null,
                   todo, err, files, locals>>

\* Lines 472-497: the result tables are built, and the argument of the first
\* to_csv reads args.output, an attribute the parser never sets (line 313 adds
\* --output_prefix): AttributeError before a file is written
Save ==
    /\ pc = "save"
    /\ pc' = "error"
    /\ err' = "AttributeError"
    /\ UNCHANGED <<argVars, tableVars, accVars, testVars, todo, files, locals>>

MainNext ==
    \/ Load
    \/ NoEmpiricalNull
    \/ EmpiricalNullRaises
    \/ Harmonize
    \/ \E i \in Chromosomes : ChrSkip(i)
    \/ \E i \in Chromosomes : ChrAccumulate(i)
    \/ BadPhenoFilter
    \/ MarginalTest
    \/ GenomicControl
    \/ Save

----------------------------------------------------------------------------
(* Specification SpecFlip: check_flip on a batch of allele rows.  A row is *)
(* <<a0, a1, b0, b1>>.                                                     *)

Alleles == Bases \cup {NA, Indel}
AlleleRows == Alleles \X Alleles \X Alleles \X Alleles

\* rows placed beside an arbitrary row: exact, swapped, palindromic, missing
ProbeRows == { <<"A", "C", "A", "C">>, <<"A", "C", "C", "A">>,
               <<"A", "T", "A", "T">>, <<"A", "C", NA, NA>> }

FlipInputs ==
    { <<t>> : t \in AlleleRows }
        \cup { <<t, u>> : t \in AlleleRows, u \in ProbeRows }
        \cup { <<u, t>> : t \in AlleleRows, u \in ProbeRows }

Column(rows, c) == [i \in 1..Len(rows) |-> rows[i][c]]

FlipInit == fa \in FlipInputs /\ fres = Ok(<<>>) /\ fpc = "start"
FlipIdle == fa = <<>> /\ fres = Ok(<<>>) /\ fpc = "idle"

FlipCall ==
    /\ fpc = "start"
    /\ fres' = check_flip(Column(fa, 1), Column(fa, 2), Column(fa, 3), Column(fa, 4))
    /\ fpc' = IF fres'.err = "" THEN "done" ELSE "raised"
    /\ UNCHANGED fa

InitFlip == FlipInit /\ RearrIdle /\ HarmIdle /\ IdpIdle /\ MainIdle
NextFlip == FlipCall /\ UNCHANGED <<rearrVars, harmVars, idpVars, mainVars>>
SpecFlip == InitFlip /\ [][NextFlip]_vars

InitRearr == RearrInit /\ FlipIdle /\ HarmIdle /\ IdpIdle /\ MainIdle
NextRearr == RearrCall /\ UNCHANGED <<flipVars, harmVars, idpVars, mainVars>>
SpecRearr == InitRearr /\ [][NextRearr]_vars

InitHarm == HarmInit /\ FlipIdle /\ RearrIdle /\ IdpIdle /\ MainIdle
NextHarm == HarmCall /\ UNCHANGED <<flipVars, rearrVars, idpVars, mainVars>>
SpecHarm == InitHarm /\ [][NextHarm]_vars

InitIdp == IdpInit /\ FlipIdle /\ RearrIdle /\ HarmIdle /\ MainIdle
NextIdp == IdpCall /\ UNCHANGED <<flipVars, rearrVars, harmVars, mainVars>>
SpecIdp == InitIdp /\ [][NextIdp]_vars

InitMain == MainInit /\ FlipIdle /\ RearrIdle /\ HarmIdle /\ IdpIdle
NextMain == MainNext /\ UNCHANGED <<flipVars, rearrVars, harmVars, idpVars>>
SpecMain == InitMain /\ [][NextMain]_vars

----------------------------------------------------------------------------
(* Claims about the allele harmonizer *)

Complement(x) ==
    CASE x = "A" -> "T" [] x = "T" -> "A" [] x = "G" -> "C" [] x = "C" -> "G"
      [] OTHER -> "?"

\* the ordered rule list of the claim, for alleles in Bases and NA
FlipRule(t) ==
    LET a0 == t[1]  a1 == t[2]  b0 == t[3]  b1 == t[4]
    IN  CASE NA \in {a0, a1, b0, b1} -> NaN
          [] OTHER ->
             IF a0 = Complement(a1) \/ b0 = Complement(b1) THEN NaN
             ELSE IF a0 = b0 /\ a1 = b1 THEN Num(1)
             ELSE IF a0 = b1 /\ a1 = b0 THEN Num(-1)
             ELSE IF a0 = Complement(b0) /\ a1 = Complement(b1) THEN Num(1)
             ELSE IF a0 = Complement(b1) /\ a1 = Complement(b0) THEN Num(-1)
             ELSE NaN

RowOver(t, S) == \A c \in 1..4 : t[c] \in S
BatchOver(S) == \A i \in 1..Len(fa) : RowOver(fa[i], S)

\* C1: for every allele 4-tuple over {A, C, G, T, missing} _check_flip returns
\* the result of the ordered rule list (missing, palindromic on either side,
\* exact, swapped, complement, complement-swap, else undetermined), and
\* check_flip returns, position by position, that result for each row.
C1_RuleListElementwise ==
    (fpc # "start" /\ BatchOver(Bases \cup {NA})) =>
        /\ fpc = "done"
        /\ Len(fres.val) = Len(fa)
        /\ \A i \in 1..Len(fa) : fres.val[i] = FlipRule(fa[i])

\* a complement-swap row (-1) followed by a palindromic row (undetermined)
C1_Witness ==
    /\ fpc = "done"
    /\ fa = << <<"A", "C", "G", "T">>, <<"A", "T", "A", "T">> >>
    /\ fres.val = <<Num(-1), NaN>>

Neg(x) == IF IsNaN(x) THEN NaN ELSE Num(0 - x.v)

SwapA(t) == <<t[2], t[1], t[3], t[4]>>
ComplB(t) == <<t[1], t[2], Complement(t[3]), Complement(t[4])>>
Flip1(t) == _check_flip(t[1], t[2], t[3], t[4]).val

\* C2 as stated: over {A, C, G, T}, swapping a0 and a1 negates the result and
\* complementing b0 and b1 keeps it; undetermined stays undetermined.
C2_SymmetryAsStated ==
    (fpc = "done" /\ Len(fa) = 1 /\ BatchOver(Bases)) =>
        /\ fres.val[1] = Neg(Flip1(SwapA(fa[1])))
        /\ fres.val[1] = Flip1(ComplB(fa[1]))

\* C2 amended: the negation under the swap of a0 and a1 holds whenever
\* a0 # a1, or the result is undetermined; the complement equation holds for
\* every tuple over {A, C, G, T}.
C2_Symmetry ==
    (fpc = "done" /\ Len(fa) = 1 /\ BatchOver(Bases)) =>
        /\ (fa[1][1] # fa[1][2] \/ IsNaN(fres.val[1])) =>
                fres.val[1] = Neg(Flip1(SwapA(fa[1])))
        /\ fres.val[1] = Flip1(ComplB(fa[1]))
        /\ (fa[1][1] = fa[1][2] /\ ~IsNaN(fres.val[1])) =>
                fres.val[1] # Neg(Flip1(SwapA(fa[1])))

\* a swapped match: -1, and +1 once a0 and a1 are exchanged
C2_Witness ==
    /\ fpc = "done"
    /\ fa = << <<"A", "C", "C", "A">> >>
    /\ fres.val[1] = Num(-1)
    /\ Flip1(SwapA(fa[1])) = Num(1)
    /\ Flip1(ComplB(fa[1])) = Num(-1)

\* C10 as stated: check_flip raises no error, whatever the allele codes, and
\* every sign it yields is one of +1, -1, NaN.
C10_NeverRaises ==
    fpc # "start" =>
        /\ fres.err = ""
        /\ \A i \in 1..Len(fres.val) : fres.val[i] \in {Num(1), Num(-1), NaN}

----------------------------------------------------------------------------
(* Claims about the two table harmonizations *)

SameSnp(x, y) ==
    /\ x.snpid = y.snpid /\ x.chr = y.chr
    /\ x.effect_allele = y.effect_allele
    /\ x.non_effect_allele = y.non_effect_allele

\* C3 as stated: the output of rearrage_df_by_target has exactly as many rows
\* as the target, and its i-th row carries the (snpid, chr) and the alleles of
\* the target's i-th row, however df overlaps the target (repeated keys in df
\* included).
C3_TargetPreserved ==
    r_pc = "done" =>
        /\ Len(r_out.val.rows) = Len(r_target.rows)
        /\ \A i \in 1..Len(r_target.rows) : SameSnp(r_out.val.rows[i], r_target.rows[i])

Key(x) == <<x.snpid, x.chr>>
Keys(rows) == { Key(rows[i]) : i \in 1..Len(rows) }
RowOf(rows, key) == rows[CHOOSE i \in 1..Len(rows) : Key(rows[i]) = key]
SignOf(g, w) ==
    FlipRule(<<g.effect_allele, g.non_effect_allele, w.effect_allele, w.non_effect_allele>>)

\* the (snpid, chr) in both tables whose sign multiplier is determined
Surviving ==
    { key \in Keys(h_gwas.rows) \cap Keys(h_weight.rows) :
        ~IsNaN(SignOf(RowOf(h_gwas.rows, key), RowOf(h_weight.rows, key))) }

HarmShape ==
    /\ Len(h_out.val.gwas.rows) = Cardinality(Surviving)
    /\ Len(h_out.val.weight.rows) = Cardinality(Surviving)
    /\ Keys(h_out.val.gwas.rows) = Surviving
    /\ \A i \in 1..Len(h_out.val.gwas.rows) :
            SameSnp(h_out.val.gwas.rows[i], h_out.val.weight.rows[i])
    /\ \A i \in 1..Len(h_out.val.weight.rows) :
            LET w == RowOf(h_weight.rows, Key(h_out.val.weight.rows[i]))
            IN  /\ h_out.val.weight.rows[i].effect_allele = w.effect_allele
                /\ h_out.val.weight.rows[i].non_effect_allele = w.non_effect_allele

\* C5 as stated (read on weight tables whose (snpid, chr) are unique): the
\* outputs hold exactly the surviving SNPs in the same order with the weight
\* table's alleles, and the sign multiplier is applied to the GWAS
\* effect_size and to every IDP weight column.
C5_SignOnGwasAndWeights ==
    (h_pc = "done" /\ UniqueKey(h_weight.rows)) =>
        /\ HarmShape
        /\ \A i \in 1..Len(h_out.val.gwas.rows) :
            LET g == RowOf(h_gwas.rows, Key(h_out.val.gwas.rows[i]))
                w == RowOf(h_weight.rows, Key(h_out.val.gwas.rows[i]))
            IN  /\ h_out.val.gwas.rows[i].cols["effect_size"] =
                        Mul(g.cols["effect_size"], SignOf(g, w))
                /\ \A c \in Range(h_weight.columns) :
                        h_out.val.weight.rows[i].cols[c] = Mul(w.cols[c], SignOf(g, w))

\* C5 amended: for a weight table whose (snpid, chr) are unique, the outputs
\* hold exactly the surviving SNPs, in the same order (the GWAS table's), with
\* the weight table's alleles; the sign multiplier is applied to the GWAS
\* effect_size only, and effect_size_se and every IDP weight are unchanged.
C5_SignOnGwasOnly ==
    (h_pc # "start" /\ UniqueKey(h_weight.rows)) =>
        /\ h_pc = "done"
        /\ HarmShape
        /\ \A i, j \in 1..Len(h_out.val.gwas.rows) :
            LET pos(x) == CHOOSE n \in 1..Len(h_gwas.rows) :
                            Key(h_gwas.rows[n]) = Key(h_out.val.gwas.rows[x])
            IN  i < j => pos(i) < pos(j)
        /\ \A i \in 1..Len(h_out.val.gwas.rows) :
            LET g == RowOf(h_gwas.rows, Key(h_out.val.gwas.rows[i]))
                w == RowOf(h_weight.rows, Key(h_out.val.gwas.rows[i]))
            IN  /\ h_out.val.gwas.rows[i].cols["effect_size"] =
                        Mul(g.cols["effect_size"], SignOf(g, w))
                /\ h_out.val.gwas.rows[i].cols["effect_size_se"] = g.cols["effect_size_se"]
                /\ h_out.val.weight.rows[i].cols = w.cols

\* two GWAS SNPs met by two weight SNPs: one is dropped, the swapped one
\* survives with its effect size negated and its weights as loaded
C5_Witness ==
    /\ h_pc = "done"
    /\ Len(h_gwas.rows) = 2 /\ Len(h_weight.rows) = 2 /\ UniqueKey(h_weight.rows)
    /\ Keys(h_gwas.rows) = Keys(h_weight.rows)
    /\ Len(h_out.val.gwas.rows) = 1
    /\ h_out.val.gwas.rows[1].cols["effect_size"] = Num(-3)
    /\ h_out.val.weight.rows[1].cols["idp1"] = Num(-1)
    /\ h_out.val.weight.rows[1].cols["idp2"] = Num(2)

----------------------------------------------------------------------------
(* Claims about the IDP-weight loader *)

Passing == { l_perf[j].IDP : j \in { j \in 1..Len(l_perf) : Geq(l_perf[j].CV_Spearman, l_cutoff) } }
ColumnSum(n) == SumSeq([i \in 1..Len(l_df.rows) |-> l_df.rows[i].cols[n]])

\* C7 as stated (read on weight files of at least one SNP): the returned weight table keeps an IDP column if and only if
\* its Spearman correlation is >= the cutoff and its weight column does not sum
\* to exactly zero, and the returned performance table lists the IDPs that
\* passed the cutoff.
C7_DropsZeroSumColumns ==
    (l_pc = "done" /\ Len(l_df.rows) > 0) =>
        /\ Range(l_out.val.weight.columns) =
                { n \in Passing : ColumnSum(n) # Num(0) }
        /\ { l_out.val.perf[j].IDP : j \in 1..Len(l_out.val.perf) } = Passing

\* C7 amended: the returned weight table keeps an IDP column if and only if
\* its Spearman correlation is >= the cutoff, whatever its weights sum to, in
\* the performance table's order; the rows it keeps are, in order, the SNPs
\* whose weights over the kept IDPs do not sum to exactly zero; the returned
\* performance table lists the IDPs that passed the cutoff.
C7_DropsZeroSumRows ==
    l_pc # "start" =>
        /\ l_pc = "done"
        /\ Range(l_out.val.weight.columns) = Passing
        /\ l_out.val.weight.columns = [j \in 1..Len(l_out.val.perf) |-> l_out.val.perf[j].IDP]
        /\ l_out.val.perf = SelectSeq(l_perf, LAMBDA q : q.IDP \in Passing)
        /\ LET keep == Kept([i \in 1..Len(l_df.rows) |->
                          SumSeq([j \in 1..Len(l_out.val.weight.columns) |->
                              l_df.rows[i].cols[l_out.val.weight.columns[j]]]) # Num(0)], 1)
           IN  /\ Len(l_out.val.weight.rows) = Len(keep)
               /\ \A k \in 1..Len(keep) :
                    /\ SameSnp(l_out.val.weight.rows[k], l_df.rows[keep[k]])
                    /\ \A n \in Passing :
                        l_out.val.weight.rows[k].cols[n] = l_df.rows[keep[k]].cols[n]

\* both IDPs pass the cutoff; idp2's column sums to zero and is kept; one of
\* the two SNP rows is dropped
C7_Witness ==
    /\ l_pc = "done"
    /\ Len(l_df.rows) = 2
    /\ Passing = {"idp1", "idp2"}
    /\ ColumnSum("idp2") = Num(0)
    /\ Range(l_out.val.weight.columns) = {"idp1", "idp2"}
    /\ Len(l_out.val.weight.rows) = 1

----------------------------------------------------------------------------
(* Claims about the script (SpecMain).                                     *)

\* what chromosome i adds, from the harmonized tables the loop reads
Contribution(i) ==
    chr_contribution(OfChr(df_gwas, ToString(i)), OfChr(df_weight, ToString(i)),
                     load_cov_meta(i), CovMatrix(i), df_weight.columns)

\* the chromosomes of S whose GWAS subset is not empty
Contributing(S) == { i \in S : Len(OfChr(df_gwas, ToString(i)).rows) # 0 }

ZeroAcc(n) ==
    [D |-> ZeroMatrix(n), numer_b |-> Zeros(n), numer_z |-> Zeros(n), nsnp_used |-> Zeros(n)]

\* the sum of the contributions of the chromosomes of S
RECURSIVE SumOver(_, _)
SumOver(S, n) ==
    IF S = {} THEN ZeroAcc(n)
    ELSE LET i == CHOOSE j \in S : TRUE
             c == Contribution(i).val
             rest == SumOver(S \ {i}, n)
         IN  [D |-> MatAdd(rest.D, c.D),
              numer_b |-> VecAdd(rest.numer_b, c.numer_b),
              numer_z |-> VecAdd(rest.numer_z, c.numer_z),
              nsnp_used |-> VecAdd(rest.nsnp_used, c.nsnp_used)]

Accumulators == [D |-> D, numer_b |-> numer_b, numer_z |-> numer_z, nsnp_used |-> nsnp_used]

\* in the loop, whatever chromosomes were visited and in whatever order, the
\* accumulators are the sum of the contributions of the visited chromosomes
\* whose GWAS subset is not empty
C4_SumOfContributions ==
    pc = "loop" =>
        \E total \in { SumOver(Contributing(Chromosomes \ todo), nidp) } :
            Accumulators = total

\* an iteration writes the accumulators and nothing else that an iteration
\* reads; an iteration with an empty GWAS subset writes none of the four
C4_IterationWrites ==
    (pc = "loop" /\ pc' = "loop") =>
        /\ UNCHANGED <<argVars, tableVars, testVars>>
        /\ (Len(OfChr(df_gwas, ToString(CHOOSE i \in todo : i \notin todo')).rows) = 0
                => UNCHANGED accVars)

\* C4: the accumulators equal the sum of the per-chromosome contributions of
\* the visited chromosomes whose GWAS subset is non-empty, for every order of
\* the chromosomes; a chromosome with an empty GWAS subset leaves the four
\* accumulators unchanged; an iteration writes nothing that another iteration
\* reads except the four accumulators.
C4_Additivity == []C4_SumOfContributions /\ [][C4_IterationWrites]_vars

\* the loop has ended and two chromosomes have each added to D
C4_Witness ==
    /\ pc = "loop"
    /\ todo = {}
    /\ nidp = 2
    /\ \E i, j \in Contributing(Chromosomes) :
          /\ i # j
          /\ Contribution(i).val.D # ZeroMatrix(nidp)
          /\ Contribution(j).val.D # ZeroMatrix(nidp)
          /\ Contribution(i).val.D # Contribution(j).val.D

\* the statements after the bad-phenotype filter, in a run that reached them
Filtered == pc \in {"marginal", "genomic_control", "save"} \/ (pc = "error" /\ ~empirical_null)
Tested == pc \in {"genomic_control", "save"} \/ (pc = "error" /\ ~empirical_null)

\* the positions, ascending, of the loaded IDPs whose accumulated D[i,i] is not 0
GoodPheno(total) == Kept([j \in 1..nidp |-> total.D[j][j] # 0], 1)
Pick(x, keep) == [k \in 1..Len(keep) |-> x[keep[k]]]

\* nsnp_total of line 350, from the files
LoadedTotal ==
    LET w == load_idp(weight_file, perf_file, Num(DefaultCutoff)).val.weight
    IN  CountNonZero(w.rows, w.columns)
\* the loaded IDPs all of whose weights in the weight file are zero
AllZeroIdps ==
    { c \in Range(df_weight.columns) :
        \A k \in 1..Len(weight_file.rows) : weight_file.rows[k].cols[c] = Num(0) }

\* C6: when beta and z are computed every IDP with accumulated D[i,i] = 0 has
\* been removed by one mask from D (rows and columns), numer_b, numer_z, the
\* IDP names, nsnp_used and nsnp_total, which keep equal length and stay
\* aligned; no ratio has a zero denominator; an IDP whose weights are all zero
\* is absent and the run goes on.
C6_DegenerateIdpsFiltered ==
    Filtered =>
        \E total \in { SumOver(Contributing(Chromosomes), nidp) } :
        \E keep \in { GoodPheno(total) } :
            /\ D = [k \in 1..Len(keep) |-> Pick(total.D[keep[k]], keep)]
            /\ numer_b = Pick(total.numer_b, keep)
            /\ numer_z = Pick(total.numer_z, keep)
            /\ idp_names = Pick(df_weight.columns, keep)
            /\ nsnp_used = Pick(total.nsnp_used, keep)
            /\ nsnp_total = Pick(LoadedTotal, keep)
            /\ \A k \in 1..Len(D) : D[k][k] # 0
            /\ AllZeroIdps \cap Range(idp_names) = {}
            /\ Tested =>
                  /\ Len(beta_brainxcan) = Len(idp_names)
                  /\ Len(z_brainxcan) = Len(idp_names)
                  /\ \A k \in 1..Len(idp_names) :
                        /\ beta_brainxcan[k] = [num |-> numer_b[k], den |-> D[k][k]]
                        /\ z_brainxcan[k] = [num |-> numer_z[k], den |-> D[k][k]]
                        /\ beta_brainxcan[k].den # 0
                        /\ z_brainxcan[k].den # 0

\* idp2 was loaded with all its weights zero, is filtered out, idp1 stays and
\* the marginal test has run
C6_Witness ==
    /\ pc = "genomic_control"
    /\ nidp = 2
    /\ "idp2" \in AllZeroIdps
    /\ idp_names = <<"idp1">>
    /\ Len(beta_brainxcan) = 1
    /\ nsnp_used # nsnp_total

\* C8: with the empirical null enabled with R replicates on N real IDPs, the
\* weight table gets R null columns after the N real ones, the accumulators
\* are sized N + R, and after the marginal test the trailing R z-scores are
\* the null sample and the leading N the real IDPs' z-scores.
C8_NullPartition ==
    (empirical_null /\ pc \notin {"load", "empirical_null"}) =>
        /\ err = ""
        /\ nrepeat_null = empirical_null_nrepeat
        /\ Len(df_weight.columns) = nidp + empirical_null_nrepeat
        /\ pc \notin {"harmonize"} => Len(D) = nidp + empirical_null_nrepeat
        /\ Tested => (Len(z_brainxcan) = nidp /\ Len(z_null) = empirical_null_nrepeat)

\* C9: a run without the empirical null on valid files does not end in an
\* error state, and when it is done both output files have been written.
C9_RunSucceeds ==
    ~empirical_null /\ pc \notin {"idle"} =>
        /\ pc # "error"
        /\ err = ""
        /\ pc = "done" => files = {"prefix.csv", "prefix.adj_meta.csv"}

\* the loop body has run to its end at least once; locals holds its variables
Iterated == locals.df_cov_meta # NoTable

MetaRow(p) == locals.df_cov_meta.rows[p]
MetaSign(p, rows) ==
    LET d == Matching(MetaRow(p), rows)[1]
    IN  FlipRule(<<MetaRow(p).effect_allele, MetaRow(p).non_effect_allele,
                   d.effect_allele, d.non_effect_allele>>)

\* the covariance-meta SNP at position p is in neither harmonized table
Absent(p) ==
    Matching(MetaRow(p), df_gwas.rows) = <<>> /\ Matching(MetaRow(p), df_weight.rows) = <<>>
\* it is in both and its orientation against the covariance meta is undetermined
Undetermined(p) ==
    /\ Matching(MetaRow(p), df_gwas.rows) # <<>>
    /\ Matching(MetaRow(p), df_weight.rows) # <<>>
    /\ IsNaN(MetaSign(p, df_gwas.rows))
    /\ IsNaN(MetaSign(p, df_weight.rows))
Inert(p) == Absent(p) \/ Undetermined(p)

\* the standard error the GWAS table gives the SNP at position p
TableSe(p) == Matching(MetaRow(p), df_gwas.rows)[1].cols["effect_size_se"]

\* the weight matrix has one row per covariance-meta row and no missing value
WeightShape ==
    /\ Len(locals.weight) = Len(locals.df_cov_meta.rows)
    /\ \A p \in 1..Len(locals.weight) :
          /\ Len(locals.weight[p]) = nidp
          /\ \A j \in 1..nidp : locals.weight[p][j] \in Int

\* what the iteration adds is what the SNPs that are not inert add
InertAddNothing ==
    LET c == CHOOSE k \in Chromosomes : load_cov_meta(k) = locals.df_cov_meta
        keep == Kept([p \in 1..Len(locals.df_cov_meta.rows) |-> ~Inert(p)], 1)
        cov == [a \in 1..Len(keep) |-> Pick(CovMatrix(c)[keep[a]], keep)]
    IN  aggregate(locals.weight, locals.b_gwas, locals.z_gwas, CovMatrix(c), nidp)
            = aggregate(Pick(locals.weight, keep), Pick(locals.b_gwas, keep),
                        Pick(locals.z_gwas, keep), cov, nidp)

\* C11 as stated: every covariance-meta SNP that is absent from the harmonized
\* subsets or whose orientation is undetermined has weight 0 for every IDP,
\* effect size 0 and standard error 1, so z_gwas = 0, and adds 0 to D, numer_b,
\* numer_z and nsnp_used; the weight matrix has one row per covariance-meta row
\* and no missing value.
C11_ZeroFillSeOne ==
    Iterated =>
        /\ WeightShape
        /\ \A p \in 1..Len(locals.df_cov_meta.rows) :
              Inert(p) =>
                  /\ locals.weight[p] = Zeros(nidp)
                  /\ locals.b_gwas[p] = 0
                  /\ locals.se_gwas[p] = 1
                  /\ locals.z_gwas[p] = 0
        /\ InertAddNothing

\* C11: every covariance-meta SNP that is absent from the harmonized subsets or
\* whose orientation is undetermined has weight 0 for every IDP and effect
\* size 0, so z_gwas = 0, and adds 0 to D, numer_b, numer_z and nsnp_used; its
\* standard error is 1 when it is absent and the GWAS table's own standard
\* error when its orientation is undetermined; the weight matrix has one row
\* per covariance-meta row and no missing value.
C11_ZeroFillInert ==
    Iterated =>
        /\ WeightShape
        /\ \A p \in 1..Len(locals.df_cov_meta.rows) :
              Inert(p) =>
                  /\ locals.weight[p] = Zeros(nidp)
                  /\ locals.b_gwas[p] = 0
                  /\ locals.se_gwas[p] = (IF Absent(p) THEN 1 ELSE FillNa(TableSe(p), 1))
                  /\ locals.z_gwas[p] = 0
        /\ InertAddNothing

\* chromosome 1 was processed with two IDPs: the orientation of its first SNP
\* is undetermined and the GWAS gives it a standard error other than 1, its
\* second SNP carries weight
C11_Witness ==
    /\ Iterated
    /\ nidp = 2
    /\ Len(locals.df_cov_meta.rows) = 2
    /\ Undetermined(1)
    /\ TableSe(1) # Num(1)
    /\ ~Inert(2)
    /\ locals.weight[2] # Zeros(nidp)
    /\ locals.b_gwas[2] # 0

====
